---- MODULE Spec2Model ----
(***************************************************************************)
(* tiles_demo.py: Web Mercator XYZ tiles.                                  *)
(*                                                                         *)
(*   clamp_lat, latlon_to_tile, tile_to_bounds   the projection            *)
(*   draw_grid                                   the grid renderer         *)
(*   render_zooms, main                          the batch driver and CLI  *)
(*                                                                         *)
(* Number format.  TLA+ has no floating point, so the floats of the source *)
(* are fixed-point numbers:                                                *)
(*   - a latitude is an integer number of micro-degrees;                   *)
(*   - a longitude is an integer number of 1/LonScale degrees;             *)
(*   - a normalised coordinate (x_norm, y_norm) is a record                *)
(*     [q, below]: the value is q / One, or, when below is TRUE, a value   *)
(*     less than q / One by an amount far smaller than 1 / (One * 2^11).   *)
(*     The flag carries the one case where the sign of such a residue      *)
(*     decides the result: y_norm at the northern latitude limit, which    *)
(*     the source computes as -6.2e-12.                                    *)
(* One = 2^22 is the width of a tile at the largest zoom level, so every   *)
(* tile index the model computes for a tabulated input is the one the      *)
(* source computes; a pixel offset is resolved to 1 / One, which is the    *)
(* source's value whenever 2^z * tile_size <= One.  The transcendental     *)
(* functions of the source (log/tan/cos and atan/sinh) are tabulated from  *)
(* the source's own results on the inputs the model uses.  Latitudes are   *)
(* numbers: a float that is not a number is not among the inputs.          *)
(*                                                                         *)
(* The file system: os.makedirs succeeds, and img.save succeeds whenever   *)
(* out_dir exists.                                                         *)
(***************************************************************************)
EXTENDS Integers, Sequences, FiniteSets, TLC

VARIABLES
    pc,         \* control point of the program run
    args,       \* the arguments of the run: entry point, lat, lon, zooms, grid, tile_size
    i,          \* render_zooms: index of the next zoom level of the loop
    dirExists,  \* the file system: whether out_dir exists
    files,      \* the file system: zoom z |-> content of out_dir/grid_z{z}.png
    log,        \* effects in program order: calls of draw_grid, saves, console lines
    call        \* the last direct call of a function and what it returned

vars == << pc, args, i, dirExists, files, log, call >>

----------------------------------------------------------------------------
(* Number format *)

One == 2^22

LonScale == 2^6

MicroDeg == 10^6

Deg(d) == d * LonScale

----------------------------------------------------------------------------
(* clamp_lat *)

\* 85.05112878 degrees, in micro-degrees (rounded to the model's resolution)
MercLatLimit == 85051129

PyMin(a, b) == IF b < a THEN b ELSE a

PyMax(a, b) == IF b > a THEN b ELSE a

clamp_lat(lat) == PyMax(PyMin(lat, MercLatLimit), -MercLatLimit)

----------------------------------------------------------------------------
(* latlon_to_tile *)

MinZoom == 0

MaxZoom == 22

\* x_norm = (lon + 180.0) / 360.0
x_norm(lon) ==
    [q |-> ((lon + Deg(180)) * (One \div (8 * LonScale))) \div 45, below |-> FALSE]

\* y_norm = (1.0 - math.log(math.tan(lat_rad) + (1 / math.cos(lat_rad))) / math.pi) / 2.0
\* for the clamped latitude lat, tabulated from the source: q = floor(y_norm * One);
\* the source's float is in the comment.  The entries at +-MercLatLimit are the
\* source's values at +-85.05112878.
y_norm(lat) ==
    CASE lat = -85051129 -> [q |-> 4194304, below |-> FALSE]   \* 1.000000000006228
      [] lat = -85051100 -> [q |-> 4194300, below |-> FALSE]   \* 0.9999990732966478
      [] lat = -83863707 -> [q |-> 4050517, below |-> FALSE]   \* 0.9657186932354508
      [] lat = -82111232 -> [q |-> 3882400, below |-> FALSE]   \* 0.9256364450857735
      [] lat = -80923810 -> [q |-> 3788459, below |-> FALSE]   \* 0.9032390143183116
      [] lat = -76595439 -> [q |-> 3526499, below |-> FALSE]   \* 0.8407830907249483
      [] lat = -75782195 -> [q |-> 3486798, below |-> FALSE]   \* 0.8313174841945592
      [] lat = -72842298 -> [q |-> 3359754, below |-> FALSE]   \* 0.8010279978264709
      [] lat = -70266402 -> [q |-> 3264751, below |-> FALSE]   \* 0.7783774795284576
      [] lat = -61144917 -> [q |-> 3003432, below |-> FALSE]   \* 0.7160741328609425
      [] lat = -53746579 -> [q |-> 2842581, below |-> FALSE]   \* 0.6777243610823661
      [] lat = -48378236 -> [q |-> 2742913, below |-> FALSE]   \* 0.6539615602446446
      [] lat = -42525565 -> [q |-> 2645580, below |-> FALSE]   \* 0.6307556426983123
      [] lat = -33256630 -> [q |-> 2508409, below |-> FALSE]   \* 0.5980515388292359
      [] lat = -31461472 -> [q |-> 2483648, below |-> FALSE]   \* 0.5921478394880149
      [] lat = -20489949 -> [q |-> 2341134, below |-> FALSE]   \* 0.558169990336742
      [] lat = -10971523 -> [q |-> 2225767, below |-> FALSE]   \* 0.5306644308967825
      [] lat = 0 -> [q |-> 2097152, below |-> FALSE]           \* 0.5
      [] lat = 10971523 -> [q |-> 1968536, below |-> FALSE]    \* 0.4693355691032175
      [] lat = 20489949 -> [q |-> 1853169, below |-> FALSE]    \* 0.441830009663258
      [] lat = 31461472 -> [q |-> 1710655, below |-> FALSE]    \* 0.40785216051198514
      [] lat = 33256630 -> [q |-> 1685894, below |-> FALSE]    \* 0.40194846117076416
      [] lat = 42525564 -> [q |-> 1548723, below |-> FALSE]    \* 0.369244361070845
      [] lat = 48378235 -> [q |-> 1451390, below |-> FALSE]    \* 0.34603844393743166
      [] lat = 53195900 -> [q |-> 1362501, below |-> FALSE]    \* 0.32484557146762516
      [] lat = 53746579 -> [q |-> 1351722, below |-> FALSE]    \* 0.3222756389176338
      [] lat = 59938600 -> [q |-> 1219453, below |-> FALSE]    \* 0.290740435856135
      [] lat = 61144916 -> [q |-> 1190871, below |-> FALSE]    \* 0.28392587289496557
      [] lat = 70266401 -> [q |-> 929552, below |-> FALSE]     \* 0.22162252869840499
      [] lat = 72842297 -> [q |-> 834549, below |-> FALSE]     \* 0.19897201158963707
      [] lat = 75782194 -> [q |-> 707505, below |-> FALSE]     \* 0.16868252711521226
      [] lat = 76595439 -> [q |-> 667804, below |-> FALSE]     \* 0.1592169092750519
      [] lat = 80923810 -> [q |-> 405844, below |-> FALSE]     \* 0.0967609856816875
      [] lat = 82111232 -> [q |-> 311903, below |-> FALSE]     \* 0.07436355491422592
      [] lat = 83863707 -> [q |-> 143786, below |-> FALSE]     \* 0.034281306764547936
      [] lat = 85051100 -> [q |-> 3, below |-> FALSE]          \* 9.267033491688892e-07
      [] lat = 85051129 -> [q |-> 0, below |-> TRUE]           \* -6.227685034332353e-12

\* int(math.floor(v * n)), n a power of two that divides One: floor rounds
\* towards minus infinity, so a value just below 0 gives -1
FloorTimes(v, n) ==
    LET c == One \div n
    IN  IF v.below THEN (v.q - 1) \div c ELSE v.q \div c

\* int(v * n * tile_size): int() truncates towards zero, so a value just
\* below 0 gives 0
IntPx(v, n, tile_size) ==
    LET c == One \div n
        m == v.q * tile_size
    IN  IF v.below
        THEN (IF m = 0 THEN 0 ELSE (m - 1) \div c)
        ELSE m \div c

ClipLowerOnly(t, n) == PyMax(0, t)

\* max(0, min(t, n - 1))
Clip(t, n) == PyMax(0, PyMin(t, n - 1))

LonOk(lon) == Deg(-180) <= lon /\ lon <= Deg(180)

ZoomOk(z) == MinZoom <= z /\ z <= MaxZoom

Tile(lat, lon, z, tile_size) ==
    LET n == 2^z
        xn == x_norm(lon)
        yn == y_norm(lat)
    IN  [status      |-> "ok",
         x_tile      |-> Clip(FloorTimes(xn, n), n),
         y_tile      |-> Clip(FloorTimes(yn, n), n),
         px_in_tile  |-> IntPx(xn, n, tile_size) % tile_size,
         py_in_tile  |-> IntPx(yn, n, tile_size) % tile_size]

Raise(msg) == [status |-> "ValueError", msg |-> msg]

latlon_to_tile_no_lon_check(lat0, lon, z, tile_size) ==
    IF ~ZoomOk(z) THEN Raise("z") ELSE Tile(clamp_lat(lat0), lon, z, tile_size)

latlon_to_tile(lat0, lon, z, tile_size) ==
    LET lat == clamp_lat(lat0)
    IN  IF ~LonOk(lon) THEN Raise("lon")
        ELSE IF ~ZoomOk(z) THEN Raise("z")
        ELSE Tile(lat, lon, z, tile_size)

----------------------------------------------------------------------------
(* tile_to_bounds *)

\* lon_deg(tx) = tx / n * 360.0 - 180.0
lon_deg(tx, n) == (tx * Deg(360)) \div n - Deg(180)

\* lat_deg(ty) = math.degrees(math.atan(math.sinh(math.pi * (1 - 2 * ty / n)))),
\* tabulated from the source for n = 2^z and ty = 0 .. n, in micro-degrees
LatDegTable(n) ==
    CASE n = 1 -> << 85051129, -85051129 >>
      [] n = 2 -> << 85051129, 0, -85051129 >>
      [] n = 4 -> << 85051129, 66513260, 0, -66513260, -85051129 >>
      [] n = 8 -> << 85051129, 79171335, 66513260, 40979898, 0,
                     -40979898, -66513260, -79171335, -85051129 >>
      [] n = 16 -> << 85051129, 82676285, 79171335, 74019543, 66513260, 55776573,
                      40979898, 21943046, 0, -21943046, -40979898, -55776573,
                      -66513260, -74019543, -79171335, -82676285, -85051129 >>

lat_deg(ty, n) == LatDegTable(n)[ty + 1]

tile_to_bounds_naive(x, y, z) ==
    LET n == 2^z
    IN  [lon_min |-> lon_deg(x, n),
         lat_min |-> lat_deg(y, n),
         lon_max |-> lon_deg(x + 1, n),
         lat_max |-> lat_deg(y + 1, n)]

tile_to_bounds(x, y, z) ==
    LET n == 2^z
    IN  [lon_min |-> lon_deg(x, n),
         lat_min |-> lat_deg(y + 1, n),
         lon_max |-> lon_deg(x + 1, n),
         lat_max |-> lat_deg(y, n)]

----------------------------------------------------------------------------
(* draw_grid *)

\* The returned record carries, beside the image, which steps ran before the
\* function returned or raised: projected (latlon_to_tile was called) and
\* allocated (Image.new was called).
GridImage(lat, lon, z, grid, tile_size, t) ==
    LET half == grid \div 2
    IN  [width  |-> grid * tile_size,
         height |-> grid * tile_size,
         lines  |-> {k * tile_size : k \in 0 .. grid},
         labels |-> [c \in (0 .. grid - 1) \X (0 .. grid - 1) |->
                        << t.x_tile + (c[1] - half), t.y_tile + (c[2] - half), z >>],
         marker |-> << half * tile_size + t.px_in_tile, half * tile_size + t.py_in_tile >>,
         header |-> [lat |-> lat, lon |-> lon, z |-> z,
                     tile |-> << t.x_tile, t.y_tile >>,
                     px |-> << t.px_in_tile, t.py_in_tile >>,
                     tile_size |-> tile_size]]

GridOk(grid) == ~(grid % 2 = 0 \/ grid < 1)

draw_grid_project_first(lat, lon, z, grid, tile_size) ==
    LET t == latlon_to_tile(lat, lon, z, tile_size)
    IN  IF t.status # "ok"
        THEN [status |-> "ValueError", msg |-> t.msg, projected |-> TRUE, allocated |-> FALSE]
        ELSE IF ~GridOk(grid)
        THEN [status |-> "ValueError", msg |-> "grid", projected |-> TRUE, allocated |-> FALSE]
        ELSE [status |-> "ok", projected |-> TRUE, allocated |-> TRUE,
              img |-> GridImage(lat, lon, z, grid, tile_size, t)]

draw_grid(lat, lon, z, grid, tile_size) ==
    IF ~GridOk(grid)
    THEN [status |-> "ValueError", msg |-> "grid", projected |-> FALSE, allocated |-> FALSE]
    ELSE LET t == latlon_to_tile(lat, lon, z, tile_size)
         IN  IF t.status # "ok"
             THEN [status |-> "ValueError", msg |-> t.msg,
                   projected |-> TRUE, allocated |-> FALSE]
             ELSE [status |-> "ok", projected |-> TRUE, allocated |-> TRUE,
                   img |-> GridImage(lat, lon, z, grid, tile_size, t)]

----------------------------------------------------------------------------
(* render_zooms *)

Entry(op, z, info) == [op |-> op, z |-> z, info |-> info]

WriteFile(fs, z, img) == [w \in DOMAIN fs \cup {z} |-> IF w = z THEN img ELSE fs[w]]

ResolveForOkLineDefaultSize(lat, lon, z, tile_size) == latlon_to_tile(lat, lon, z, 256)

\* line 149: the call that resolves the tile for the [OK] line
ResolveForOkLine(lat, lon, z, tile_size) == latlon_to_tile(lat, lon, z, tile_size)

\* One pass of the loop body, lines 145-152: what the try block and its handler
\* do to the files of out_dir and to the log.
\* img.save raises when out_dir does not exist.
RenderOne(a, z, dir, fs, lg) ==
    LET lg1 == Append(lg, Entry("draw_grid", z, << >>))
        r   == draw_grid(a.lat, a.lon, z, a.grid, a.tile_size)
    IN  IF r.status # "ok"
        THEN [files |-> fs, log |-> Append(lg1, Entry("print_error", z, << r.msg >>))]
        ELSE IF ~dir
        THEN [files |-> fs, log |-> Append(lg1, Entry("print_error", z, << "save" >>))]
        ELSE LET fs2 == WriteFile(fs, z, r.img)
                 lg2 == Append(lg1, Entry("save", z, << >>))
                 t   == ResolveForOkLine(a.lat, a.lon, z, a.tile_size)
             IN  IF t.status # "ok"
                 THEN [files |-> fs2,
                       log |-> Append(lg2, Entry("print_error", z, << t.msg >>))]
                 ELSE [files |-> fs2,
                       log |-> Append(lg2, Entry("print_ok", z,
                                  << t.x_tile, t.y_tile, t.px_in_tile, t.py_in_tile >>))]

MakeDirsNoCreate ==
    /\ pc = "render_zooms"
    /\ log' = Append(log, Entry("makedirs", 0, << >>))
    /\ i' = 1
    /\ pc' = "loop"
    /\ UNCHANGED << args, dirExists, files, call >>

\* line 143: os.makedirs(out_dir, exist_ok=True)
MakeDirs ==
    /\ pc = "render_zooms"
    /\ dirExists' = TRUE
    /\ log' = Append(log, Entry("makedirs", 0, << >>))
    /\ i' = 1
    /\ pc' = "loop"
    /\ UNCHANGED << args, files, call >>

RenderZoomAbortOnError ==
    /\ pc = "loop"
    /\ i <= Len(args.zooms)
    /\ LET o == RenderOne(args, args.zooms[i], dirExists, files, log)
       IN  /\ files' = o.files
           /\ log' = o.log
           /\ pc' = IF o.log[Len(o.log)].op = "print_error" THEN "done" ELSE pc
    /\ i' = i + 1
    /\ UNCHANGED << args, dirExists, call >>

RenderZoomReversed ==
    /\ pc = "loop"
    /\ i <= Len(args.zooms)
    /\ LET o == RenderOne(args, args.zooms[Len(args.zooms) + 1 - i], dirExists, files, log)
       IN  /\ files' = o.files
           /\ log' = o.log
    /\ i' = i + 1
    /\ UNCHANGED << pc, args, dirExists, call >>

\* lines 144-152: one zoom level
RenderZoom ==
    /\ pc = "loop"
    /\ i <= Len(args.zooms)
    /\ LET o == RenderOne(args, args.zooms[i], dirExists, files, log)
       IN  /\ files' = o.files
           /\ log' = o.log
    /\ i' = i + 1
    /\ UNCHANGED << pc, args, dirExists, call >>

\* the loop is exhausted: render_zooms returns
Return ==
    /\ pc = "loop"
    /\ i > Len(args.zooms)
    /\ pc' = "done"
    /\ UNCHANGED << args, i, dirExists, files, log, call >>

----------------------------------------------------------------------------
(* main *)

MinTileSize == 8

MaxTileSize == 2048

MaxCliLat == 90

ArgErrorFirstZoomOnly(a) ==
    IF ~LonOk(a.lon) THEN "--lon"
    ELSE IF ~(-MaxCliLat * MicroDeg <= a.lat /\ a.lat <= MaxCliLat * MicroDeg) THEN "--lat"
    ELSE IF a.grid < 1 \/ a.grid % 2 = 0 THEN "--grid"
    ELSE IF a.tile_size < MinTileSize \/ a.tile_size > MaxTileSize THEN "--tile-size"
    ELSE IF a.zooms[1] < MinZoom \/ a.zooms[1] > MaxZoom THEN "--zooms"
    ELSE ""

\* lines 178-189: the first check that fails raises; "" when none does
ArgError(a) ==
    IF ~LonOk(a.lon) THEN "--lon"
    ELSE IF ~(-MaxCliLat * MicroDeg <= a.lat /\ a.lat <= MaxCliLat * MicroDeg) THEN "--lat"
    ELSE IF a.grid < 1 \/ a.grid % 2 = 0 THEN "--grid"
    ELSE IF a.tile_size < MinTileSize \/ a.tile_size > MaxTileSize THEN "--tile-size"
    ELSE IF \E k \in 1 .. Len(a.zooms) : a.zooms[k] < MinZoom \/ a.zooms[k] > MaxZoom
         THEN "--zooms"
    ELSE ""

\* lines 173-204
Main ==
    /\ pc = "main"
    /\ IF ArgError(args) # ""
       THEN /\ log' = Append(log, Entry("print_arg_error", 0, << ArgError(args) >>))
            /\ pc' = "done"
       ELSE /\ pc' = "render_zooms"
            /\ log' = log
    /\ UNCHANGED << args, i, dirExists, files, call >>

----------------------------------------------------------------------------
(* The runs of the program *)

MaxZooms == 2

Lats == {-91 * MicroDeg, 53195900, 90 * MicroDeg}

Lons == {Deg(-181), 3206, Deg(180)}

Zooms == {-1, 5, 22, 30}

Grids == {-1, 2, 3}

CliTileSizes == {7, 8, 256, 2049}

TileSizes == {8, 256}

ZoomLists(lo) == UNION {[1 .. k -> Zooms] : k \in lo .. MaxZooms}

\* a file left in out_dir by an earlier run
StaleImage ==
    [width |-> 24, height |-> 24, lines |-> {0, 8, 16, 24},
     labels |-> [c \in (0 .. 0) \X (0 .. 0) |-> << 0, 0, 0 >>],
     marker |-> << 4, 4 >>,
     header |-> [lat |-> 0, lon |-> 0, z |-> 0, tile |-> << 0, 0 >>,
                 px |-> << 4, 4 >>, tile_size |-> 8]]

NoFiles == [w \in {} |-> StaleImage]

\* out_dir before the run: absent, empty, or holding a file of an earlier run
InitialDirs ==
    { [exists |-> FALSE, files |-> NoFiles],
      [exists |-> TRUE, files |-> NoFiles],
      [exists |-> TRUE, files |-> WriteFile(NoFiles, 5, StaleImage)] }

NoCall == [fn |-> "none"]

\* The command line reaches main; render_zooms is also called directly.
Init ==
    /\ \E e \in {"main", "render_zooms"} :
       \E lat \in Lats, lon \in Lons, grid \in Grids :
       \E ts \in (IF e = "main" THEN CliTileSizes ELSE TileSizes) :
       \E zs \in ZoomLists(IF e = "main" THEN 1 ELSE 0), d \in InitialDirs :
          /\ args = [entry |-> e, lat |-> lat, lon |-> lon, zooms |-> zs,
                     grid |-> grid, tile_size |-> ts, dir0 |-> d]
          /\ pc = e
          /\ dirExists = d.exists
          /\ files = d.files
    /\ i = 0
    /\ log = << >>
    /\ call = NoCall

Next == Main \/ MakeDirs \/ RenderZoom \/ Return

Spec == Init /\ [][Next]_vars

----------------------------------------------------------------------------
(* Direct calls of the projection and of the renderer *)

MaxBoundsZoom == 3

ProjLats == {-90 * MicroDeg, -85051129, -85051100, 0, 53195900,
             85051100, 85051129, 90 * MicroDeg}

ProjLons == {Deg(-181), Deg(-180), Deg(-90), 0, 3206, Deg(180) - 1, Deg(180), Deg(181)}

ProjZooms == {-1, 0, 1, 2, 12, 22, 23}

ProjGrids == {-3, -1, 0, 1, 2, 3, 4, 5}

CallLatLonToTile ==
    /\ call = NoCall
    /\ \E lat \in ProjLats, lon \in ProjLons, z \in ProjZooms, ts \in TileSizes :
          call' = [fn |-> "latlon_to_tile", lat |-> lat, lon |-> lon, z |-> z,
                   tile_size |-> ts, ret |-> latlon_to_tile(lat, lon, z, ts)]
    /\ UNCHANGED << pc, args, i, dirExists, files, log >>

\* tile_to_bounds, then latlon_to_tile on the centre of the rectangle it returned
CallTileToBounds ==
    /\ call = NoCall
    /\ \E z \in 0 .. MaxBoundsZoom :
       \E x \in 0 .. 2^z - 1, y \in 0 .. 2^z - 1 :
          LET b == tile_to_bounds(x, y, z)
              c == [lat |-> (b.lat_min + b.lat_max) \div 2,
                    lon |-> (b.lon_min + b.lon_max) \div 2]
          IN  call' = [fn |-> "tile_to_bounds", x |-> x, y |-> y, z |-> z, ret |-> b,
                       centre |-> c,
                       back |-> latlon_to_tile(c.lat, c.lon, z, 256)]
    /\ UNCHANGED << pc, args, i, dirExists, files, log >>

CallDrawGrid ==
    /\ call = NoCall
    /\ \E lat \in {0, 90 * MicroDeg}, lon \in ProjLons, z \in ProjZooms :
       \E grid \in ProjGrids, ts \in TileSizes :
          call' = [fn |-> "draw_grid", lat |-> lat, lon |-> lon, z |-> z, grid |-> grid,
                   tile_size |-> ts, ret |-> draw_grid(lat, lon, z, grid, ts)]
    /\ UNCHANGED << pc, args, i, dirExists, files, log >>

InitProj ==
    /\ pc = "lib"
    /\ args = [entry |-> "lib", lat |-> 0, lon |-> 0, zooms |-> << >>,
               grid |-> 3, tile_size |-> 256,
               dir0 |-> [exists |-> FALSE, files |-> NoFiles]]
    /\ i = 0
    /\ dirExists = FALSE
    /\ files = NoFiles
    /\ log = << >>
    /\ call = NoCall

NextProj == CallLatLonToTile \/ CallTileToBounds \/ CallDrawGrid

SpecProj == InitProj /\ [][NextProj]_vars

----------------------------------------------------------------------------
(* What the properties speak of *)

ValidLon(lon) == -180 * LonScale <= lon /\ lon <= 180 * LonScale

ValidZoom(z) == 0 <= z /\ z <= 22

ValidGrid(g) == g >= 1 /\ g % 2 = 1

IsAttempt(e) == e.op = "draw_grid"

IsSave(e) == e.op = "save"

IsOkLine(e) == e.op = "print_ok"

IsErrorLine(e) == e.op = "print_error"

IsStatusLine(e) == e.op \in {"print_ok", "print_error"}

Range(f) == {f[k] : k \in DOMAIN f}

\* render_zooms was entered and has returned
RenderReturned == pc = "done" /\ log # << >> /\ log[1].op = "makedirs"

\* the arguments of render_zooms other than the zoom levels are valid
OtherArgsValid == ValidLon(args.lon) /\ ValidGrid(args.grid)

ValidPositions == {k \in DOMAIN args.zooms : ValidZoom(args.zooms[k])}

----------------------------------------------------------------------------
(* C1 *)

\* C1: render_zooms isolates failures per zoom level.  When render_zooms has
\* returned (its other arguments valid), every element of the zoom list was
\* attempted exactly once and in order, every valid level has its file, no
\* invalid level has written one, and the [ERROR] lines are exactly one per
\* invalid element, whatever the position of the failures.
C1_FailuresIsolated ==
    (RenderReturned /\ OtherArgsValid) =>
        LET zs       == args.zooms
            attempts == SelectSeq(log, IsAttempt)
            errors   == SelectSeq(log, IsErrorLine)
            saves    == SelectSeq(log, IsSave)
        IN  /\ Len(attempts) = Len(zs)
            /\ \A k \in DOMAIN zs : attempts[k].z = zs[k]
            /\ \A k \in ValidPositions :
                  /\ zs[k] \in DOMAIN files
                  /\ files[zs[k]].header.z = zs[k]
                  /\ files[zs[k]].width = args.grid * args.tile_size
            /\ DOMAIN files = DOMAIN args.dir0.files \cup {zs[k] : k \in ValidPositions}
            /\ Len(saves) = Cardinality(ValidPositions)
            /\ Len(errors) = Len(zs) - Cardinality(ValidPositions)
            /\ \A v \in Range(zs) :
                  Cardinality({k \in DOMAIN errors : errors[k].z = v})
                     = IF ValidZoom(v) THEN 0
                       ELSE Cardinality({k \in DOMAIN zs : zs[k] = v})

\* zooms = [30, 5] into an empty directory: the failure comes first, and the
\* batch still renders z = 5
C1_Witness ==
    /\ RenderReturned
    /\ OtherArgsValid
    /\ args.zooms = << 30, 5 >>
    /\ args.dir0.files = NoFiles
    /\ DOMAIN files = {5}
    /\ Len(SelectSeq(log, IsErrorLine)) = 1
    /\ SelectSeq(log, IsErrorLine)[1].z = 30

----------------------------------------------------------------------------
(* C2 *)

CliArgsInvalid ==
    \/ ~ValidLon(args.lon)
    \/ ~(-90 * MicroDeg <= args.lat /\ args.lat <= 90 * MicroDeg)
    \/ ~ValidGrid(args.grid)
    \/ args.tile_size < 8
    \/ args.tile_size > 2048
    \/ \E k \in DOMAIN args.zooms : ~ValidZoom(args.zooms[k])

\* C2: CLI validation is all-or-nothing.  A run of main whose arguments fail
\* any check never creates the directory, never attempts a zoom level and never
\* writes a file, and when it has returned it has printed exactly one line,
\* the [ERROR] line of the validation.
C2_ValidationAllOrNothing ==
    (args.entry = "main" /\ CliArgsInvalid) =>
        /\ dirExists = args.dir0.exists
        /\ files = args.dir0.files
        /\ \A k \in DOMAIN log : log[k].op = "print_arg_error"
        /\ pc \in {"main", "done"}
        /\ pc = "done" => Len(log) = 1

\* main with zooms = [5, 30]: only the second level is out of range, and
\* nothing is rendered for the first
C2_Witness ==
    /\ args.entry = "main"
    /\ pc = "done"
    /\ args.zooms = << 5, 30 >>
    /\ ValidLon(args.lon)
    /\ ValidGrid(args.grid)
    /\ args.tile_size = 256
    /\ args.lat = 53195900
    /\ ~args.dir0.exists
    /\ ~dirExists
    /\ Len(log) = 1

----------------------------------------------------------------------------
(* C3 *)

\* C3: range invariant of latlon_to_tile.  For every latitude, every lon in
\* [-180, 180] and every zoom in [0, 22] the call returns tile indices with
\* 0 <= x < 2^z and 0 <= y < 2^z.
C3_TileInRange ==
    (call.fn = "latlon_to_tile" /\ ValidLon(call.lon) /\ ValidZoom(call.z)) =>
        /\ call.ret.status = "ok"
        /\ 0 <= call.ret.x_tile /\ call.ret.x_tile < 2^call.z
        /\ 0 <= call.ret.y_tile /\ call.ret.y_tile < 2^call.z

\* lon = 180 and lat = 90 at zoom 22: floor(x_norm * n) = n and
\* floor(y_norm * n) = -1 before the clamp
C3_Witness ==
    /\ call.fn = "latlon_to_tile"
    /\ call.lon = 180 * LonScale
    /\ call.lat = 90 * MicroDeg
    /\ call.z = 22
    /\ FloorTimes(x_norm(call.lon), 2^22) = 2^22
    /\ FloorTimes(y_norm(clamp_lat(call.lat)), 2^22) = -1
    /\ call.ret.status = "ok"
    /\ call.ret.x_tile = 2^22 - 1
    /\ call.ret.y_tile = 0

----------------------------------------------------------------------------
(* C4 *)

----------------------------------------------------------------------------
(* C5 *)

\* C5: inverse consistency.  For every tile (x, y, z) with 0 <= x, y < 2^z,
\* tile_to_bounds returns lon_min < lon_max and lat_min < lat_max, and the
\* centre of that rectangle projects through latlon_to_tile at zoom z to (x, y).
C5_BoundsRoundTrip ==
    call.fn = "tile_to_bounds" =>
        /\ call.ret.lon_min < call.ret.lon_max
        /\ call.ret.lat_min < call.ret.lat_max
        /\ call.back.status = "ok"
        /\ call.back.x_tile = call.x
        /\ call.back.y_tile = call.y

\* the south-east corner tile of zoom 3
C5_Witness ==
    /\ call.fn = "tile_to_bounds"
    /\ call.z = 3
    /\ call.x = 7
    /\ call.y = 7
    /\ call.ret.lat_min = -MercLatLimit
    /\ call.back.status = "ok"
    /\ << call.back.x_tile, call.back.y_tile >> = << 7, 7 >>

----------------------------------------------------------------------------
(* C6 *)

\* C6: odd-grid enforcement.  draw_grid raises for every grid size that is
\* even or <= 0, before it projects the point or allocates a canvas; for an
\* odd positive grid size with valid lon and zoom it returns an image of
\* exactly (grid * tile_size) x (grid * tile_size) pixels.
C6_OddGridEnforced ==
    call.fn = "draw_grid" =>
        /\ (call.grid % 2 = 0 \/ call.grid <= 0) =>
              /\ call.ret.status = "ValueError"
              /\ call.ret.msg = "grid"
              /\ ~call.ret.projected
              /\ ~call.ret.allocated
        /\ (ValidGrid(call.grid) /\ ValidLon(call.lon) /\ ValidZoom(call.z)) =>
              /\ call.ret.status = "ok"
              /\ call.ret.img.width = call.grid * call.tile_size
              /\ call.ret.img.height = call.grid * call.tile_size
              /\ (call.grid = 3 /\ call.tile_size = 256) =>
                    (call.ret.img.width = 768 /\ call.ret.img.height = 768)

\* grid = -1 is odd, so only the test grid < 1 rejects it
C6_Witness ==
    /\ call.fn = "draw_grid"
    /\ call.grid = -1
    /\ ValidLon(call.lon)
    /\ ValidZoom(call.z)
    /\ call.ret.status = "ValueError"
    /\ ~call.ret.projected

----------------------------------------------------------------------------
(* C7 *)

AllZoomsValid == \A k \in DOMAIN args.zooms : ValidZoom(args.zooms[k])

\* C7 as stated: into a directory that did not exist, the number of files
\* equals the number of zoom levels requested, repeated levels included.
C7_OneFilePerRequestedLevel ==
    (RenderReturned /\ OtherArgsValid /\ AllZoomsValid /\ ~args.dir0.exists) =>
        /\ dirExists
        /\ Cardinality(DOMAIN files) = Len(args.zooms)

\* C7, amended: render_zooms creates the directory when it does not exist, and
\* when it has returned the files of a directory that did not exist are
\* grid_z{z}.png for exactly the distinct zoom levels requested (a repeated
\* level overwrites its file); a directory that already exists is not an
\* error: every level is saved and its earlier files are kept or overwritten.
C7_OneFilePerDistinctLevel ==
    (RenderReturned /\ OtherArgsValid /\ AllZoomsValid) =>
        /\ dirExists
        /\ DOMAIN files = DOMAIN args.dir0.files \cup Range(args.zooms)
        /\ ~args.dir0.exists =>
              Cardinality(DOMAIN files) = Cardinality(Range(args.zooms))
        /\ \A z \in Range(args.zooms) : files[z].header.z = z
        /\ Len(SelectSeq(log, IsErrorLine)) = 0
        /\ Len(SelectSeq(log, IsSave)) = Len(args.zooms)

\* zooms = [5, 5] into a directory that did not exist: two saves, one file
C7_Witness ==
    /\ RenderReturned
    /\ OtherArgsValid
    /\ ~args.dir0.exists
    /\ args.zooms = << 5, 5 >>
    /\ dirExists
    /\ DOMAIN files = {5}
    /\ Len(SelectSeq(log, IsSave)) = 2

----------------------------------------------------------------------------
(* C8 *)

\* C8: zoom levels are processed in input order.  At every point of a run of
\* render_zooms the status lines printed so far name the first zoom levels of
\* the input, one line per level and in the input's order, and when
\* render_zooms has returned there are as many lines as zoom levels.
C8_StatusLinesInInputOrder ==
    LET lines == SelectSeq(log, IsStatusLine)
    IN  /\ Len(lines) <= Len(args.zooms)
        /\ \A k \in DOMAIN lines : lines[k].z = args.zooms[k]
        /\ pc = "loop" => Len(lines) = i - 1
        /\ RenderReturned => Len(lines) = Len(args.zooms)

\* zooms = [30, 5]: an [ERROR] line for 30, then an [OK] line for 5
C8_Witness ==
    /\ RenderReturned
    /\ args.zooms = << 30, 5 >>
    /\ LET lines == SelectSeq(log, IsStatusLine)
       IN  /\ Len(lines) = 2
           /\ lines[1].op = "print_error" /\ lines[1].z = 30
           /\ lines[2].op = "print_ok" /\ lines[2].z = 5

----------------------------------------------------------------------------
(* C9 *)

\* C9: the pixel offset is the location of the point within the returned tile.
\* For valid lon and zoom, px and py are in [0, tile_size), and
\* x * tile_size + px = trunc(x_norm * 2^z * tile_size), likewise for y.
C9_OffsetWithinReturnedTile ==
    (call.fn = "latlon_to_tile" /\ call.ret.status = "ok") =>
        LET n  == 2^call.z
            ts == call.tile_size
        IN  /\ call.ret.px_in_tile \in 0 .. ts - 1
            /\ call.ret.py_in_tile \in 0 .. ts - 1
            /\ call.ret.x_tile * ts + call.ret.px_in_tile
                  = IntPx(x_norm(call.lon), n, ts)
            /\ call.ret.y_tile * ts + call.ret.py_in_tile
                  = IntPx(y_norm(clamp_lat(call.lat)), n, ts)

----------------------------------------------------------------------------
(* C10 *)

\* C10: each zoom level ends in exactly one outcome.  Every [OK] line for z
\* directly follows the save of grid_z{z}.png, which follows the attempt for z;
\* every [ERROR] line for z directly follows the attempt for z, with no save
\* in between; and the tile and pixel offset of an [OK] line are those in the
\* header of the saved image.
C10_OneOutcomePerLevel ==
    \A k \in DOMAIN log :
        /\ log[k].op = "print_ok" =>
              /\ k >= 3
              /\ log[k - 1].op = "save" /\ log[k - 1].z = log[k].z
              /\ log[k - 2].op = "draw_grid" /\ log[k - 2].z = log[k].z
              /\ log[k].z \in DOMAIN files
              /\ log[k].info = files[log[k].z].header.tile \o files[log[k].z].header.px
        /\ log[k].op = "print_error" =>
              /\ k >= 2
              /\ log[k - 1].op = "draw_grid" /\ log[k - 1].z = log[k].z
        /\ log[k].op = "save" =>
              /\ k < Len(log)
              /\ log[k + 1].op = "print_ok"

\* tile_size = 8, zooms = [5, 30]: one level saved and reported, one refused
C10_Witness ==
    /\ RenderReturned
    /\ args.tile_size = 8
    /\ args.lon = 3206
    /\ args.zooms = << 5, 30 >>
    /\ Len(log) = 6
    /\ log[3].op = "save"
    /\ log[4].op = "print_ok"
    /\ log[4].info # << 0, 0, 0, 0 >>
    /\ log[6].op = "print_error"

====
